---- MODULE Spec2Model ----
(***************************************************************************)
(* University records service (students, courses, instructors).            *)
(*                                                                         *)
(* The module models                                                       *)
(*   - the format validators of dtool/validators.py as operators over      *)
(*     strings (sequences of Unicode code points) and Python integers,     *)
(*   - the three tables of dtool/model.py and the CRUD functions of        *)
(*     dtool/crud.py,                                                      *)
(*   - the request handlers of student.py, course.py and master.py, one    *)
(*     action per endpoint.                                                *)
(*                                                                         *)
(* Strings are sequences of code points; a Python int is a record          *)
(* [neg, digs] holding its sign and its decimal digits without leading     *)
(* zeros, because identifiers of 10 and 11 digits do not fit 32-bit      *)
(* machine integers.                                                       *)
(***************************************************************************)
EXTENDS Integers, Sequences, FiniteSets, TLC

VARIABLES
    nid_n,      \* validate_national_id: the argument n
    nid_r,      \* validate_national_id: the outcome ("unset" before the call)
    fn_s,       \* check_farsi_name: the argument n
    fn_r,       \* check_farsi_name: the outcome ("unset" before the call)
    students,   \* table student: a set of rows
    lessons,    \* table lesson: a set of rows
    masters,    \* table master: a set of rows
    req,        \* the request handled last
    resp,       \* the response to it
    workers     \* the requests in flight when requests are served concurrently

vars == <<nid_n, nid_r, fn_s, fn_r, students, lessons, masters, req, resp, workers>>
store == <<students, lessons, masters>>

(***************************************************************************)
(* Bounds of the model.                                                    *)
(***************************************************************************)
\* longest decimal expansion of a national-ID argument
MaxNidDigits == 11
\* longest string handed to check_farsi_name
MaxNameLen == 3
\* most fields in which a payload departs from the base payload
MaxFields == 2

(***************************************************************************)
(* Python values.                                                          *)
(***************************************************************************)
Min(a, b) == IF a < b THEN a ELSE b

\* int literal from its sign and digits
PyInt(neg, digs) == [neg |-> neg, digs |-> digs]

\* str(n) of an int: an optional "-" (45) and the digits as characters 48..57
str(n) ==
    (IF n.neg THEN <<45>> ELSE <<>>) \o [i \in 1..Len(n.digs) |-> 48 + n.digs[i]]

\* The numeric value of an int of at most nine digits.
RECURSIVE Magnitude(_)
Magnitude(digs) ==
    IF digs = <<>> THEN 0
    ELSE 10 * Magnitude(SubSeq(digs, 1, Len(digs) - 1)) + digs[Len(digs)]

IntVal(n) == IF n.neg THEN 0 - Magnitude(n.digs) ELSE Magnitude(n.digs)

\* int(c) of a one-character string: the digit, or ValueError
IsAsciiDigit(c) == c \in 48..57
DigitOf(c) == c - 48

(***************************************************************************)
(* Regular expressions (module re), as far as the patterns of the          *)
(* repository use them.  A character class is a set of code-point ranges,  *)
(* possibly negated; a pattern is a sequence of items "class{min,max}"     *)
(* (many = TRUE: no upper limit); re.match anchors the pattern at the      *)
(* start of the string only.                                               *)
(***************************************************************************)
\* \s for str patterns: the characters for which str.isspace() holds
SpaceRanges ==
    { <<9, 13>>, <<28, 32>>, <<133, 133>>, <<160, 160>>, <<5760, 5760>>,
      <<8192, 8202>>, <<8232, 8233>>, <<8239, 8239>>, <<8287, 8287>>,
      <<12288, 12288>> }

\* \d for str patterns, up to U+06FF: ASCII, Arabic-Indic and extended digits
DigitRanges == { <<48, 57>>, <<1632, 1641>>, <<1776, 1785>> }

\* \w for str patterns over ASCII and the Arabic block U+0600..U+06FF
WordRanges ==
    { <<48, 57>>, <<65, 90>>, <<95, 95>>, <<97, 122>>, <<1568, 1610>>,
      <<1632, 1641>>, <<1646, 1647>>, <<1649, 1747>>, <<1749, 1749>>,
      <<1765, 1766>>, <<1774, 1788>>, <<1791, 1791>> }

Cls(rs) == [neg |-> FALSE, rs |-> rs]
NotCls(rs) == [neg |-> TRUE, rs |-> rs]
Lit(c) == Cls({<<c, c>>})
\* "." : any character but the newline
AnyChar == NotCls({<<10, 10>>})

InClass(cl, c) == (\E r \in cl.rs : r[1] <= c /\ c <= r[2]) # cl.neg

One(cl) == [cls |-> cl, min |-> 1, max |-> 1, many |-> FALSE]
Opt(cl) == [cls |-> cl, min |-> 0, max |-> 1, many |-> FALSE]
Rep(cl, k) == [cls |-> cl, min |-> k, max |-> k, many |-> FALSE]
Plus(cl) == [cls |-> cl, min |-> 1, max |-> 1, many |-> TRUE]

\* "$" without re.MULTILINE: the end of the string, or just before a final newline
AtDollar(s, i) == i = Len(s) + 1 \/ (i = Len(s) /\ s[i] = 10)

\* items k.. of pat match s from position i on (dollar: and then "$" matches)
RECURSIVE MatchFrom(_, _, _, _, _)
MatchFrom(pat, dollar, s, k, i) ==
    IF k > Len(pat) THEN (dollar => AtDollar(s, i))
    ELSE LET it == pat[k]
             left == Len(s) - i + 1
             most == IF it.many THEN left ELSE Min(it.max, left)
         IN \E c \in it.min..most :
                /\ \A j \in 0..(c - 1) : InClass(it.cls, s[i + j])
                /\ MatchFrom(pat, dollar, s, k + 1, i + c)

\* bool(re.match(p, s)) for p one of the alternatives pats
ReMatch(pats, dollar, s) == \E p \in pats : MatchFrom(p, dollar, s, 1, 1)

(***************************************************************************)
(* dtool/validators.py                                                     *)
(***************************************************************************)
\* the class [\u0600-\u06FF\s1-9] with the digit zero let in
FarsiNameClassWithZero == Cls({<<1536, 1791>>, <<48, 57>>} \cup SpaceRanges)

\* the class [\u0600-\u06FF\s1-9] of the pattern of check_farsi_name
FarsiNameClass == Cls({<<1536, 1791>>, <<49, 57>>} \cup SpaceRanges)

\* check_farsi_name(n): re.match(r"^[\u0600-\u06FF\s1-9]+$", n)
check_farsi_name(n) == ReMatch({<<Plus(FarsiNameClass)>>}, TRUE, n)

\* the weights with the last one dropped to 1
coefficients_off == <<10, 9, 8, 7, 6, 5, 4, 3, 1>>

\* coefficients = [10, 9, 8, 7, 6, 5, 4, 3, 2]
coefficients == <<10, 9, 8, 7, 6, 5, 4, 3, 2>>

\* "0" * k, cut to the ten characters validate_national_id reads (n_id[0..9]);
\* k <= 0 gives the empty string
ZeroPad(k) == [i \in 1..Min(k, 10) |-> 48]

RECURSIVE WeightedSum(_, _)
WeightedSum(n_id, i) ==
    IF i = 0 THEN 0
    ELSE WeightedSum(n_id, i - 1) + DigitOf(n_id[i]) * coefficients[i]

\* the two return statements: int(n_id[9]) == reminder, or == 11 - reminder
check_digit(n_id, reminder) ==
    IF reminder < 2 THEN DigitOf(n_id[10]) = reminder
    ELSE DigitOf(n_id[10]) = 11 - reminder

\* validate_national_id(n): "True", "False", or the exception the body raises.
\* The parenthesis of line 106 closes after "+ n": n_id is a run of
\* 10 - len(str(n)) + n zeros, not the zero-padded digits of n.
validate_national_id(n) ==
    LET s == str(n)
        ln == Len(s)
    IN  IF ln < 8 \/ ln > 10 THEN "False"
        ELSE LET n_id == IF ln < 10 THEN ZeroPad(10 - ln + IntVal(n)) ELSE s
             IN  IF Len(n_id) < 9 THEN "IndexError"
                 ELSE IF \E i \in 1..9 : ~IsAsciiDigit(n_id[i]) THEN "ValueError"
                 ELSE LET total == WeightedSum(n_id, 9)
                          reminder == total % 11
                      IN  IF Len(n_id) < 10 THEN "IndexError"
                          ELSE IF ~IsAsciiDigit(n_id[10]) THEN "ValueError"
                          ELSE IF check_digit(n_id, reminder) THEN "True"
                          ELSE "False"

(***************************************************************************)
(* Arguments of the validators.                                            *)
(***************************************************************************)
LeadDigits == {1, 8}
MidDigits == {0, 7}
LastDigits == 0..9

\* decimal expansions of L digits without a leading zero
DigitSeqs(L) ==
    IF L = 1 THEN {<<d>> : d \in LastDigits}
    ELSE {<<a>> \o m \o <<z>> :
            a \in LeadDigits, m \in [1..(L - 2) -> MidDigits], z \in LastDigits}

NidInputs ==
    {PyInt(b, d) : b \in BOOLEAN, d \in UNION {DigitSeqs(L) : L \in 1..MaxNidDigits}}

\* Arabic letters, the neighbours of the block U+0600..U+06FF, digits and
\* their neighbours, white space, Latin and a symbol
NameAlphabet == {1593, 1740, 1535, 1536, 1791, 1792, 48, 49, 57, 58, 32, 10, 65, 47}

NameInputs == UNION {[1..L -> NameAlphabet] : L \in 0..MaxNameLen}

\* no request handled yet
NoPayload == [set |-> {}, null |-> {}, val |-> <<>>]
NoRequest == [op |-> "none", ent |-> "none", id |-> PyInt(FALSE, <<0>>), p |-> NoPayload]
NoResponse == [code |-> 0, detail |-> "", errors |-> {}]

\* the two requests the server may be handling at the same time
Workers == {"a", "b"}

\* a worker with no request: no session, nothing committed; overlap holds
\* the workers whose current request was pending together with this one
\* before either reached its commit
IdleWorker ==
    [pc |-> "idle", session |-> "none", req |-> NoRequest, resp |-> NoResponse,
     commits |-> 0, overlap |-> {}]

\* the service at rest, with empty tables
StoreIdle ==
    /\ students = {}
    /\ lessons = {}
    /\ masters = {}
    /\ req = NoRequest
    /\ resp = NoResponse
    /\ workers = [w \in Workers |-> IdleWorker]

\* the validators not called
ValidatorsIdle ==
    /\ nid_n = PyInt(FALSE, <<0>>)
    /\ nid_r = "unset"
    /\ fn_s = <<>>
    /\ fn_r = "unset"

(***************************************************************************)
(* Specification of validate_national_id.                                  *)
(***************************************************************************)
InitNid ==
    /\ nid_n \in NidInputs
    /\ nid_r = "unset"
    /\ fn_s = <<>>
    /\ fn_r = "unset"
    /\ StoreIdle

CallValidateNationalId ==
    /\ nid_r = "unset"
    /\ nid_r' = validate_national_id(nid_n)
    /\ UNCHANGED <<nid_n, fn_s, fn_r, students, lessons, masters, req, resp, workers>>

NextNid == CallValidateNationalId

SpecNid == InitNid /\ [][NextNid]_vars

(***************************************************************************)
(* Specification of check_farsi_name.                                      *)
(***************************************************************************)
InitFarsi ==
    /\ fn_s \in NameInputs
    /\ fn_r = "unset"
    /\ nid_n = PyInt(FALSE, <<0>>)
    /\ nid_r = "unset"
    /\ StoreIdle

CallCheckFarsiName ==
    /\ fn_r = "unset"
    /\ fn_r' = (IF check_farsi_name(fn_s) THEN "True" ELSE "False")
    /\ UNCHANGED <<fn_s, nid_n, nid_r, students, lessons, masters, req, resp, workers>>

NextFarsi == CallCheckFarsiName

SpecFarsi == InitFarsi /\ [][NextFarsi]_vars

(***************************************************************************)
(* Claims about the validators.                                            *)
(***************************************************************************)
\* the checksum rule on ten digits d[1..10]
ChecksumRule(d) ==
    LET r == (10 * d[1] + 9 * d[2] + 8 * d[3] + 7 * d[4] + 6 * d[5]
              + 5 * d[6] + 4 * d[7] + 3 * d[8] + 2 * d[9]) % 11
    IN  d[10] = (IF r < 2 THEN r ELSE 11 - r)

ChecksumRemainder(d) ==
    (10 * d[1] + 9 * d[2] + 8 * d[3] + 7 * d[4] + 6 * d[5]
     + 5 * d[6] + 4 * d[7] + 3 * d[8] + 2 * d[9]) % 11

\* the digits left-padded with zeros to ten
PadToTen(d) == [i \in 1..(10 - Len(d)) |-> 0] \o d

\* C1: validate_national_id returns true only for an input of 8 to 10
\* decimal digits, and for a 10-digit input d0..d9 it returns true exactly
\* when d9 is the check digit of the weighted sum of d0..d8 modulo 11.
C1_NationalIdChecksum ==
    nid_r # "unset" =>
        /\ nid_r = "True" => (~nid_n.neg /\ Len(nid_n.digs) \in 8..10)
        /\ (~nid_n.neg /\ Len(nid_n.digs) = 10) =>
               /\ nid_r \in {"True", "False"}
               /\ (nid_r = "True") <=> ChecksumRule(nid_n.digs)

\* a 10-digit input with remainder at least 2 was accepted
C1_Witness ==
    /\ nid_r = "True"
    /\ ~nid_n.neg
    /\ Len(nid_n.digs) = 10
    /\ ChecksumRemainder(nid_n.digs) >= 2

\* C2: an input of 8 or 9 digits gets the result the checksum rule gives for
\* its digits left-padded with zeros to ten.
C2_PaddedChecksum ==
    (nid_r # "unset" /\ ~nid_n.neg /\ Len(nid_n.digs) \in 8..9) =>
        (nid_r = "True") <=> ChecksumRule(PadToTen(nid_n.digs))

\* C3: check_farsi_name returns true exactly for the non-empty strings made
\* only of characters of U+0600..U+06FF, the digits 1 to 9 and white space.
FarsiAllowed(c) ==
    \/ c \in 1536..1791
    \/ c \in 49..57
    \/ \E r \in SpaceRanges : c \in r[1]..r[2]

IsSubstr(a, b) == \E i \in 0..(Len(b) - Len(a)) : SubSeq(b, i + 1, i + Len(a)) = a

AsciiDigits == Cls({<<48, 57>>})

\* the value of a run of ASCII digits
NumOf(s) == Magnitude([i \in 1..Len(s) |-> DigitOf(s[i])])

\* the days of a Jalali month (a leap year's 30th of month 12 is left out)
DaysIn(m) == IF m <= 6 THEN 31 ELSE IF m <= 11 THEN 30 ELSE 29

\* check_shamsi(d_str): jdatetime's strptime(d_str, '%Y/%m/%d') does not raise
\* ValueError: four digits, "/", a month 1..12, "/", a day of that month
check_shamsi(d_str) ==
    \E a \in 1..Len(d_str), b \in 1..Len(d_str) :
        /\ a < b
        /\ d_str[a] = 47 /\ d_str[b] = 47
        /\ LET y == SubSeq(d_str, 1, a - 1)
               m == SubSeq(d_str, a + 1, b - 1)
               d == SubSeq(d_str, b + 1, Len(d_str))
           IN  /\ Len(y) = 4 /\ Len(m) \in 1..2 /\ Len(d) \in 1..2
               /\ \A i \in 1..Len(y) : IsAsciiDigit(y[i])
               /\ \A i \in 1..Len(m) : IsAsciiDigit(m[i])
               /\ \A i \in 1..Len(d) : IsAsciiDigit(d[i])
               /\ NumOf(m) \in 1..12
               /\ NumOf(d) \in 1..DaysIn(NumOf(m))

\* province.json: two of its city names (Tehran, Khorramabad)
ProvinceJson ==
    { <<1578, 1607, 1585, 1575, 1606>>,
      <<1582, 1585, 1605, 32, 1570, 1576, 1575, 1583>> }

\* is_cities(n): some entry of province.json is contained in n (else None)
is_cities(n) == \E char \in ProvinceJson : IsSubstr(char, n)

\* lst_college: the seven trusted department names
lst_college ==
    << <<1601, 1606, 1740, 32, 1608, 32, 1605, 1607, 1606, 1583, 1587, 1740>>,
       <<1593, 1604, 1608, 1605, 32, 1662, 1575, 1740, 1607>>,
       <<1593, 1604, 1608, 1605, 32, 1575, 1606, 1587, 1575, 1606, 1740>>,
       <<1583, 1575, 1605, 1662, 1586, 1588, 1705, 1740>>,
       <<1575, 1602, 1578, 1589, 1575, 1583>>,
       <<1705, 1588, 1575, 1608, 1585, 1586, 1740>>,
       <<1605, 1606, 1575, 1576, 1593, 32, 1591, 1576, 1740, 1593, 1740>> >>

\* college_trust(n): n is contained in some trusted name (else None)
college_trust(n) == \E i \in 1..Len(lst_college) : IsSubstr(n, lst_college[i])

\* engineering_fields.json: one of its entries (electrical engineering)
EngineeringFieldsJson == { <<1605, 1607, 1606, 1583, 1587, 1740, 32, 1576, 1585, 1602>> }

\* trust(n): n is contained in some entry of engineering_fields.json (else None)
trust(n) == \E char \in EngineeringFieldsJson : IsSubstr(n, char)

(***************************************************************************)
(* Requests, responses and the error dictionary of a handler.              *)
(*                                                                         *)
(* A payload is [set, null, val]: the fields the request supplies          *)
(* (exclude_unset), those among them that are null (None), and the values  *)
(* of the others.  The errors dictionary is a set of <<key, message>>      *)
(* pairs with one pair per key; a message is its text and the identifier   *)
(* formatted into it.                                                      *)
(***************************************************************************)
Msg(text) == [text |-> text, arg |-> <<>>]
MsgId(text, id) == [text |-> text, arg |-> <<id>>]

\* errors[key] = msg
Put(errors, key, msg) == {e \in errors : e[1] # key} \cup {<<key, msg>>}
Keys(errors) == {e[1] : e \in errors}

\* raise HTTPException(status_code = code, detail = detail)
HTTPException(code, detail) == [code |-> code, detail |-> detail, errors |-> {}]
\* raise HTTPException(400, {"detail": "Validation error", "errors": errors})
ValidationError(errors) == [code |-> 400, detail |-> "Validation error", errors |-> errors]
\* an exception no handler catches: the framework answers 500
ServerError(exc) == [code |-> 500, detail |-> exc, errors |-> {}]
Returned(detail) == [code |-> 200, detail |-> detail, errors |-> {}]

\* One statement of a handler's rule list: it raises, or it stores an entry
\* in errors, or it does nothing.
Pass == [raise |-> "", hit |-> FALSE, key |-> "", msg |-> Msg("")]
Raise(exc) == [raise |-> exc, hit |-> FALSE, key |-> "", msg |-> Msg("")]
Entry(key, msg) == [raise |-> "", hit |-> TRUE, key |-> key, msg |-> msg]
\* if cond: errors[key] = text
If(cond, key, text) == IF cond THEN Entry(key, Msg(text)) ELSE Pass
\* the same statement behind `"f" in update_data and ...`, where the test
\* raises TypeError on None
OnField(p, f, step) ==
    IF f \notin p.set THEN Pass
    ELSE IF f \in p.null THEN Raise("TypeError")
    ELSE step
\* the same, where the test holds on None instead of raising
OnFieldNoneHits(p, f, key, text, step) ==
    IF f \notin p.set THEN Pass
    ELSE IF f \in p.null THEN Entry(key, Msg(text))
    ELSE step

\* the statements run in order: the first that raises ends the handler
RECURSIVE RunRules(_, _, _)
RunRules(steps, i, errors) ==
    IF i > Len(steps) THEN [raise |-> "", errors |-> errors]
    ELSE IF steps[i].raise # "" THEN [raise |-> steps[i].raise, errors |-> errors]
    ELSE RunRules(steps, i + 1,
                  IF steps[i].hit THEN Put(errors, steps[i].key, steps[i].msg)
                  ELSE errors)

\* `if errors: raise ... else: <write>`: the response and the table after it
Conclude(run, table, written) ==
    IF run.raise # "" THEN [resp |-> ServerError(run.raise), table |-> table]
    ELSE IF run.errors # {} THEN [resp |-> ValidationError(run.errors), table |-> table]
    ELSE [resp |-> Returned(""), table |-> written]

\* the statements of run executed after errors already holds entries
After(errors, run) ==
    [raise |-> run.raise,
     errors |-> {e \in errors : e[1] \notin Keys(run.errors)} \cup run.errors]

\* further statements executed after those of run
Then(run, steps) == IF run.raise # "" THEN run ELSE RunRules(steps, 1, run.errors)

\* The field statements of a handler read the payload only: their outcome is
\* attached to the payload when the request is built.
WithRun(p, run) == [set |-> p.set, null |-> p.null, val |-> p.val, run |-> run]
Body(p) == [set |-> p.set, null |-> p.null, val |-> p.val]

(***************************************************************************)
(* dtool/crud.py on tables (sets of rows).                                 *)
(***************************************************************************)
\* Student(**student.model_dump()), Lesson(...), Master(...): the row of a payload
RowOf(p) == [f \in DOMAIN p.val |-> p.val[f]]

\* a variant that assigns every field of the payload model, supplied or not
SetAttrsUnsupplied(row, updated_data) ==
    [f \in DOMAIN row |->
        IF f \in DOMAIN updated_data.val /\ f \notin updated_data.null
        THEN updated_data.val[f]
        ELSE row[f]]

\* the two loops of update_*: None values are dropped, the others assigned
SetAttrs(row, updated_data) ==
    [f \in DOMAIN row |->
        IF f \in updated_data.set \ updated_data.null THEN updated_data.val[f]
        ELSE row[f]]

create_lesson(ls, lesson) == ls \cup {RowOf(lesson)}

\* update_course: the row is fetched again and assigned to
update_course(ls, CID, updated_data) ==
    {IF r.CID = CID THEN SetAttrs(r, updated_data) ELSE r : r \in ls}

get_lsn(ls, Cid) ==
    IF \E r \in ls : r.CID = Cid
    THEN [resp |-> Returned(""), table |-> ls]
    ELSE [resp |-> HTTPException(400, "lesson is not found"), table |-> ls]

crud_del_lsn(ls, Cid) ==
    IF \E r \in ls : r.CID = Cid
    THEN [resp |-> Returned("delete record is succesful"),
          table |-> {r \in ls : r.CID # Cid}]
    ELSE [resp |-> HTTPException(400, "lesson is not found"), table |-> ls]

(***************************************************************************)
(* course.py                                                               *)
(***************************************************************************)
\* r"[1-5]"
CreditPattern == {<<One(Cls({<<49, 53>>}))>>}

\* lines 71-78: the field statements, which read the payload only
course_steps(ln) ==
    LET v == ln.val
    IN  <<
                 If(Len(str(v.CID)) # 5, "CID", "CID must be 5 digits"),
                 If(Len(v.CName) > 25 \/ ~check_farsi_name(v.CName), "CName",
                    "The maximum length of the string should be 25 and all characters should be Farsi"),
                 If(~college_trust(v.Department), "Department", "name college is wrong"),
                 If(~ReMatch(CreditPattern, FALSE, v.Credit), "credit",
                    "The number of units must be between 1 and 4")
                 >>

\* the outcome of running them from an empty errors dictionary
course_rules(ln) == RunRules(course_steps(ln), 1, {})

\* POST /creatcsr (ln.run: the outcome of the field statements on ln)
course(ln, ls) ==
    IF \E r \in ls : r.CID = ln.val.CID
    THEN [resp |-> HTTPException(400, "courseID already exists ,courseID must be unique"),
          table |-> ls]
    ELSE Conclude(ln.run, ls, create_lesson(ls, ln))

\* lines 101-106: the field statements, which read the payload only
upt_cour_steps(ln) ==
    LET v == ln.val
    IN  <<
                 OnField(ln, "CName",
                    If(Len(v.CName) > 25 \/ ~check_farsi_name(v.CName), "CName",
                       "The maximum length of the string should be 25 and all characters should be Farsi")),
                 OnField(ln, "Department",
                    If(~college_trust(v.Department), "Department", "name college is wrong")),
                 OnField(ln, "Credit",
                    If(~ReMatch(CreditPattern, FALSE, v.Credit), "credit",
                       "The number of units must be between 1 and 4"))
                 >>

\* the outcome of running them from an empty errors dictionary
upt_cour_rules(ln) == RunRules(upt_cour_steps(ln), 1, {})

\* PATCH /uptcsr/{CID}
upt_cour(CID, ln, ls) ==
    IF ~\E r \in ls : r.CID = CID
    THEN [resp |-> HTTPException(400, "CID is not found"), table |-> ls]
    ELSE Conclude(ln.run, ls, update_course(ls, CID, ln))

(***************************************************************************)
(* Statements shared by student.py and master.py.                          *)
(***************************************************************************)
\* `if not validators.validate_national_id(x): errors[key] = text`
NationalIdStep(n, key, text) ==
    LET r == validate_national_id(n)
    IN  IF r \in {"True", "False"} THEN If(r = "False", key, text) ELSE Raise(r)

\* `for course in ids: if not <row with that id>: errors[key] = f"{text}"`,
\* one statement per element; iterating None raises TypeError
ReferenceSteps(isNone, ids, existing, key, text) ==
    IF isNone THEN <<Raise("TypeError")>>
    ELSE [i \in 1..Len(ids) |->
            IF ids[i] \in existing THEN Pass ELSE Entry(key, MsgId(text, ids[i]))]

\* r"((0?9)|(\+?989))\d{2}\W?\d{3}\W?\d{4}"
MobileTail ==
    << Rep(Cls(DigitRanges), 2), Opt(NotCls(WordRanges)), Rep(Cls(DigitRanges), 3),
       Opt(NotCls(WordRanges)), Rep(Cls(DigitRanges), 4) >>
MobilePattern ==
    { <<Opt(Lit(48)), One(Lit(57))>> \o MobileTail,
      <<Opt(Lit(43)), One(Lit(57)), One(Lit(56)), One(Lit(57))>> \o MobileTail }

\* r"^(066)" and r"^(09)"
LandlinePattern == {<<One(Lit(48)), One(Lit(54)), One(Lit(54))>>}
MobilePrefixPattern == {<<One(Lit(48)), One(Lit(57))>>}

\* r"([\u0627][\u0644][\u0641]|[\u0628-\u06CC])[\/][0-9]{2}\s{1}[0-9]{6}"
CertificateTail ==
    <<One(Lit(47)), Rep(AsciiDigits, 2), Rep(Cls(SpaceRanges), 1), Rep(AsciiDigits, 6)>>
CertificatePattern ==
    { <<One(Lit(1575)), One(Lit(1604)), One(Lit(1601))>> \o CertificateTail,
      <<One(Cls({<<1576, 1740>>}))>> \o CertificateTail }

\* r"^(402|401|400)" and r"...114150.."
YearPattern ==
    { <<One(Lit(52)), One(Lit(48)), One(Lit(50))>>,
      <<One(Lit(52)), One(Lit(48)), One(Lit(49))>>,
      <<One(Lit(52)), One(Lit(48)), One(Lit(48))>> }
FixedPattern ==
    { <<Rep(AnyChar, 3), One(Lit(49)), One(Lit(49)), One(Lit(52)), One(Lit(49)),
        One(Lit(53)), One(Lit(48)), Rep(AnyChar, 2)>> }

\* the two values of Married
MarriedYes == <<1605, 1578, 1575, 1607, 1604>>
MarriedNo == <<1605, 1580, 1585, 1583>>

CIDs(ls) == {r.CID : r \in ls}
LIDsOf(ms) == {r.LID : r \in ms}

(***************************************************************************)
(* dtool/crud.py, students and masters.                                    *)
(***************************************************************************)
create_student(st, student) == st \cup {RowOf(student)}

\* create_master: the column LCourseIDs is NOT NULL, so a None list fails
\* at commit
create_master(ms, master) == ms \cup {RowOf(master)}

get_student(st, stid) ==
    IF \E r \in st : r.STID = stid
    THEN [resp |-> Returned(""), table |-> st]
    ELSE [resp |-> HTTPException(400, "student is not found"), table |-> st]

get_msr(ms, Lid) ==
    IF \E r \in ms : r.LID = Lid
    THEN [resp |-> Returned(""), table |-> ms]
    ELSE [resp |-> HTTPException(400, "master is not found"), table |-> ms]

update_student(st, stid, updated_data) ==
    IF \E r \in st : r.STID = stid
    THEN [resp |-> Returned(""),
          table |-> {IF r.STID = stid THEN SetAttrs(r, updated_data) ELSE r : r \in st}]
    ELSE [resp |-> HTTPException(400, "student is not found"), table |-> st]

update_master(ms, LID, updated_data) ==
    {IF r.LID = LID THEN SetAttrs(r, updated_data) ELSE r : r \in ms}

crud_del_std(st, stid) ==
    IF \E r \in st : r.STID = stid
    THEN [resp |-> Returned("delete record is succesful"),
          table |-> {r \in st : r.STID # stid}]
    ELSE [resp |-> HTTPException(400, "student is not found"), table |-> st]

crud_del_msr(ms, Lid) ==
    IF \E r \in ms : r.LID = Lid
    THEN [resp |-> Returned("delete record is succesful"),
          table |-> {r \in ms : r.LID # Lid}]
    ELSE [resp |-> HTTPException(400, "master is not found"), table |-> ms]

(***************************************************************************)
(* master.py                                                               *)
(***************************************************************************)
\* lines 82-109: the field statements, which read the payload only
master_steps(mr) ==
    LET v == mr.val
    IN  <<
                 If(Len(str(v.LID)) # 6, "LID", "The number of digits entered is incorrect"),
                 If(~check_farsi_name(v.FName), "FName",
                    "All letters must be Farsi or Do not contain special symbols or numbers"),
                 If(~check_farsi_name(v.LName), "LName",
                    "All letters must be Farsi or Do not contain special symbols or numbers"),
                 If(Len(v.FName) > 10 \/ Len(v.LName) > 10, "FName or LName",
                    "The maximum string length must be ten"),
                 NationalIdStep(v.ID, "ID", "code melli is incorrect"),
                 If(~college_trust(v.Department), "Department", "name college is wrong"),
                 If(~trust(v.Major), "Major", "field of study is wrong"),
                 If(~check_shamsi(v.Birth), "Birth", "This date is incorrect"),
                 If(~is_cities(v.BornCity), "BornCity", "incorrect province"),
                 If(100 < Len(v.Address), "Address", "address incorrectly"),
                 If(Len(v.PostalCode) # 10, "PostalCode", "postal code is invalued"),
                 If(~ReMatch(MobilePattern, FALSE, v.CPhone), "CPhone",
                    "Mobile phone number must be start with 09 and 11 digits"),
                 If(Len(v.HPhone) # 11, "HPhone", "landline number must be 11 digits"),
                 If(~ReMatch(LandlinePattern, FALSE, v.HPhone), "landline_number",
                    "is landline number incorrect ")
                 >>

\* the outcome of running them from an empty errors dictionary
master_rules(mr) == RunRules(master_steps(mr), 1, {})

\* POST /CreateMaster (mr.run: the outcome of the field statements on mr)
master(mr, ms, ls) ==
    IF \E r \in ms : r.LID = mr.val.LID
    THEN [resp |-> HTTPException(400, "This teacher exists with the number {mr.LID}"),
          table |-> ms]
    ELSE LET run == Then(mr.run,
                 IF "LCourseIDs" \in mr.null THEN <<>>
                 ELSE ReferenceSteps(FALSE, mr.val.LCourseIDs, CIDs(ls), "LCourseIDs",
                                     "Lesson with ID {course} not found"))
         IN  IF run.raise = "" /\ run.errors = {} /\ "LCourseIDs" \in mr.null
             THEN [resp |-> ServerError("IntegrityError"), table |-> ms]
             ELSE Conclude(run, ms, create_master(ms, mr))

\* lines 140-171: the field statements, which read the payload only
upd_mas_steps(mr) ==
    LET v == mr.val
    IN  <<
                 OnField(mr, "FName",
                    If(~check_farsi_name(v.FName), "FName",
                       "All letters must be Farsi or Do not contain special symbols or numbers")),
                 OnField(mr, "FName",
                    If(Len(v.FName) > 10, "FName", "The maximum string length must be ten")),
                 OnField(mr, "LName",
                    If(~check_farsi_name(v.LName), "LName",
                       "All letters must be Farsi or Do not contain special symbols or numbers")),
                 OnField(mr, "LName",
                    If(Len(v.LName) > 10, "LName", "The maximum string length must be ten")),
                 OnFieldNoneHits(mr, "ID", "ID", "code melli is incorrect",
                    NationalIdStep(v.ID, "ID", "code melli is incorrect")),
                 OnField(mr, "Department",
                    If(~college_trust(v.Department), "Department", "name college is wrong")),
                 OnField(mr, "Major", If(~trust(v.Major), "Major", "field of study is wrong")),
                 OnField(mr, "Birth",
                    If(~check_shamsi(v.Birth), "Birth", "This date is incorrect")),
                 OnField(mr, "BornCity",
                    If(~is_cities(v.BornCity), "BornCity", "incorrect province")),
                 OnField(mr, "Address",
                    If(100 < Len(v.Address), "address", "address incorrectly")),
                 OnFieldNoneHits(mr, "PostalCode", "PostalCode", "postal code is invalued",
                    If(Len(v.PostalCode) # 10, "PostalCode", "postal code is invalued")),
                 OnFieldNoneHits(mr, "CPhone", "CPhone", "Mobile phone number must be 11 digits",
                    If(Len(v.CPhone) # 11, "CPhone", "Mobile phone number must be 11 digits")),
                 OnField(mr, "CPhone",
                    If(~ReMatch(MobilePrefixPattern, FALSE, v.CPhone), "CPhone1",
                       "Mobile phone number must be start with 09")),
                 OnFieldNoneHits(mr, "HPhone", "HPhone", "landline number must be 11 digits",
                    If(Len(v.HPhone) # 11, "HPhone", "landline number must be 11 digits")),
                 OnField(mr, "HPhone",
                    If(~ReMatch(LandlinePattern, FALSE, v.HPhone), "HPhone1",
                       "is landline number incorrect "))
                 >>

\* the outcome of running them from an empty errors dictionary
upd_mas_rules(mr) == RunRules(upd_mas_steps(mr), 1, {})

\* PATCH /Updmaster/{LID} (mr.run: the outcome of the field statements on mr)
upd_mas(LID, mr, ms, ls) ==
    IF ~\E r \in ms : r.LID = LID
    THEN [resp |-> HTTPException(404, "There is no such master"), table |-> ms]
    ELSE IF mr.set = {}
    THEN [resp |-> HTTPException(400, "No fields provided for update"), table |-> ms]
    ELSE LET run == Then(mr.run,
                 IF "LCourseIDs" \notin mr.set \/ "LCourseIDs" \in mr.null THEN <<>>
                 ELSE ReferenceSteps(FALSE, mr.val.LCourseIDs, CIDs(ls), "LCourseIDs",
                                     "Lesson with ID {course} not found"))
         IN  Conclude(run, ms, update_master(ms, LID, mr))

(***************************************************************************)
(* student.py                                                              *)
(***************************************************************************)
\* lines 90-127: the field statements, which read the payload only
create_std_steps(users) ==
    LET v == users.val
        sid == str(v.STID)
    IN  <<
                 If(Len(sid) # 11, "STID", "The number of digits entered is incorrect"),
                 If(~ReMatch(YearPattern, FALSE, sid), "STID1", "The year field is incorrect"),
                 If(~ReMatch(FixedPattern, FALSE, sid), "STID2", "The fixed field is wrong"),
                 If(Len(sid) = 11 /\ ~(NumOf(SubSeq(sid, 10, 11)) \in 1..99), "STID3",
                    "The index part is wrong"),
                 If(~(check_farsi_name(v.FName) /\ check_farsi_name(v.LName)
                      /\ check_farsi_name(v.Father)), "name",
                    "All letters must be Farsi or Do not contain special symbols or numbers"),
                 If(Len(v.FName) > 10 \/ Len(v.LName) > 10 \/ Len(v.Father) > 10, "name2",
                    "The maximum string length must be ten"),
                 If(~check_shamsi(v.Birth), "Birth", "This date is incorrect"),
                 If(~ReMatch(CertificatePattern, FALSE, v.IDS), "IDS",
                    "The letter part of the birth certificate was entered incorrectly"),
                 If(~is_cities(v.BornCity), "BornCity", "incorrect province"),
                 If(100 < Len(v.Address), "address", "address incorrectly"),
                 If(~check_farsi_name(v.Address), "address1", "address must be farsi"),
                 If(Len(str(v.PostalCode)) # 10, "postal_code", "postal code is invalued"),
                 If(~ReMatch(MobilePattern, FALSE, v.CPhone), "CPhone",
                    "Mobile phone number must be start with 09 and 11 digits"),
                 If(Len(v.HPhone) # 11, "landline_number", "landline number must be 11 digits"),
                 If(~ReMatch(LandlinePattern, FALSE, v.HPhone), "landline_number",
                    "is landline number incorrect "),
                 If(~college_trust(v.Department), "name_college", "name college is wrong"),
                 If(~trust(v.Major), "field_study", "field of study is wrong"),
                 If(~(v.Married = MarriedYes \/ v.Married = MarriedNo), "marital",
                    "is marital status is wrong value"),
                 NationalIdStep(v.ID, "code_melli", "code melli is incorrect")
                 >>

\* the outcome of running them from an empty errors dictionary
create_std_rules(users) == RunRules(create_std_steps(users), 1, {})

\* POST /RegStu (users.run: the outcome of the field statements on users)
create_std(users, st, ls, ms) ==
    LET v == users.val
        pre == RunRules(
                 ReferenceSteps("SCourseIDs" \in users.null, v.SCourseIDs, CIDs(ls),
                                "Lcourse", "Lesson with ID {course} not found")
                 \o ReferenceSteps("LIDs" \in users.null, v.LIDs, LIDsOf(ms),
                                   "LID", "Master with ID {master} not found"),
                 1, {})
    IN  IF pre.raise # "" THEN [resp |-> ServerError(pre.raise), table |-> st]
        ELSE IF \E r \in st : r.STID = v.STID
        THEN [resp |-> HTTPException(400, "studentID already exists ,studentID must be unique"),
              table |-> st]
        ELSE Conclude(After(pre.errors, users.run), st, create_student(st, users))

\* lines 152-187: the field statements, which read the payload only
update_std_steps(student_update) ==
    LET p == student_update
        v == student_update.val
    IN  <<
                 OnField(p, "FName", If(~check_farsi_name(v.FName), "FName",
                    "All letters must be Farsi or Do not contain special symbols or numbers")),
                 OnField(p, "LName", If(~check_farsi_name(v.LName), "LName",
                    "All letters must be Farsi or Do not contain special symbols or numbers")),
                 OnField(p, "Father", If(~check_farsi_name(v.Father), "Father",
                    "All letters must be Farsi or Do not contain special symbols or numbers")),
                 OnField(p, "FName", If(Len(v.FName) > 10, "FName1",
                    "The maximum string length must be ten")),
                 OnField(p, "LName", If(Len(v.LName) > 10, "LName1",
                    "The maximum string length must be ten")),
                 OnField(p, "Father", If(Len(v.Father) > 10, "Father1",
                    "The maximum string length must be ten")),
                 OnField(p, "Birth", If(~check_shamsi(v.Birth), "Birth", "This date is incorrect")),
                 OnField(p, "IDS", If(~ReMatch(CertificatePattern, FALSE, v.IDS), "IDS",
                    "The letter part of the birth certificate was entered incorrectly")),
                 OnField(p, "BornCity", If(~is_cities(v.BornCity), "BornCity", "incorrect province")),
                 OnField(p, "Address", If(100 < Len(v.Address), "address", "address incorrectly")),
                 OnFieldNoneHits(p, "PostalCode", "postal_code", "postal code is invalued",
                    If(Len(str(v.PostalCode)) # 10, "postal_code", "postal code is invalued")),
                 OnField(p, "CPhone", If(~ReMatch(MobilePattern, FALSE, v.CPhone), "CPhone",
                    "Mobile phone number must be start with 09")),
                 OnFieldNoneHits(p, "HPhone", "HPhone", "landline number must be 11 digits",
                    If(Len(v.HPhone) # 11, "HPhone", "landline number must be 11 digits")),
                 OnField(p, "HPhone", If(~ReMatch(LandlinePattern, FALSE, v.HPhone), "HPhone1",
                    "is landline number incorrect ")),
                 OnField(p, "Department", If(~college_trust(v.Department), "Department",
                    "name college is wrong")),
                 OnField(p, "Major", If(~trust(v.Major), "Major", "field of study is wrong")),
                 OnFieldNoneHits(p, "Married", "Married", "is marital status is wrong value",
                    If(~(v.Married = MarriedYes \/ v.Married = MarriedNo), "Married",
                       "is marital status is wrong value")),
                 OnFieldNoneHits(p, "ID", "ID", "code melli is incorrect",
                    NationalIdStep(v.ID, "ID", "code melli is incorrect"))
                 >>

\* the outcome of running them from an empty errors dictionary
update_std_rules(student_update) == RunRules(update_std_steps(student_update), 1, {})

\* PATCH /UpdStu/{STID} (student_update.run: the outcome of the field statements)
update_std(STID, student_update, st) ==
    IF student_update.set = {}
    THEN [resp |-> HTTPException(400, "No fields provided for update"), table |-> st]
    ELSE LET run == student_update.run
         IN  IF run.raise # "" THEN [resp |-> ServerError(run.raise), table |-> st]
             ELSE IF run.errors # {} THEN [resp |-> ValidationError(run.errors), table |-> st]
             ELSE update_student(st, STID, student_update)

(***************************************************************************)
(* Request payloads.  A payload departs from a base payload of valid       *)
(* values in at most MaxFields fields (create), or supplies at most        *)
(* MaxFields fields (update).  An option <<f, k>> gives field f its k-th   *)
(* alternative value, or null when k = 0.                                  *)
(***************************************************************************)
RECURSIVE KSubsets(_, _)
KSubsets(S, k) ==
    IF k = 0 THEN {{}}
    ELSE LET prev == KSubsets(S, k - 1)
         IN  prev \cup {p \cup {x} : p \in prev, x \in S}

\* at most k options, no two for the same field
Choices(opts, k) ==
    {D \in KSubsets(opts, k) : \A a \in D, b \in D : a[1] = b[1] => a = b}

OptionsOf(alts, nullable) ==
    UNION {{<<f, k>> : k \in 1..Len(alts[f])} : f \in DOMAIN alts}
        \cup {<<f, 0>> : f \in nullable}

Chosen(D) == {d[1] : d \in D}
Nulled(D) == {d[1] : d \in {x \in D : x[2] = 0}}

ValOf(fields, base, alts, D) ==
    [f \in fields |->
        IF \E d \in D : d[1] = f /\ d[2] > 0
        THEN alts[f][(CHOOSE d \in D : d[1] = f)[2]]
        ELSE base[f]]

\* a create payload supplies every field
CreatePayload(base, alts, D) ==
    [set |-> DOMAIN base, null |-> Nulled(D), val |-> ValOf(DOMAIN base, base, alts, D)]

\* an update payload supplies the chosen fields and the required ones
UpdatePayload(fields, required, base, alts, D) ==
    [set |-> Chosen(D) \cup required,
     null |-> Nulled(D) \cup (required \ Chosen(D)),
     val |-> ValOf(fields, base, alts, D)]

\* the field values the requests are built from
Sample ==
    [FaRiazi |-> <<1585, 1740, 1575, 1590, 1740>>,
     FaFizik |-> <<1601, 1740, 1586, 1740, 1705>>,
     FaAli |-> <<1593, 1604, 1740>>,
     FaReza |-> <<1585, 1590, 1575>>,
     LatinAli |-> <<65, 108, 105>>,
     DeptScience |-> <<1593, 1604, 1608, 1605, 32, 1662, 1575, 1740, 1607>>,
     DeptPhysics |-> <<80, 104, 121, 115, 105, 99, 115>>,
     CID_A |-> PyInt(FALSE, <<1, 0, 0, 0, 1>>),
     CID_B |-> PyInt(FALSE, <<1, 0, 0, 0, 2>>),
     CID_Short |-> PyInt(FALSE, <<1, 2, 3>>),
     Long11 |-> [i \in 1..11 |-> 1593],
     Long101 |-> [i \in 1..101 |-> 1575],
     BirthOk |-> <<49, 51, 56, 48, 47, 48, 53, 47, 49, 50>>,
     BirthBad |-> <<49, 51, 56, 48, 47, 49, 51, 47, 48, 49>>,
     IdsOk |-> <<1576, 47, 49, 50, 32, 49, 50, 51, 52, 53, 54>>,
     IdsBad |-> <<65, 47, 49, 50, 32, 49, 50, 51, 52, 53, 54>>,
     Tehran |-> <<1578, 1607, 1585, 1575, 1606>>,
     Paris |-> <<80, 97, 114, 105, 115>>,
     PostalOk |-> <<49, 50, 51, 52, 53, 54, 55, 56, 57, 48>>,
     PostalShort |-> <<49, 50, 51, 52, 53>>,
     MobileOk |-> <<48, 57, 49, 50, 49, 50, 51, 52, 53, 54, 55>>,
     MobileBad |-> <<49, 50, 51, 52, 53>>,
     LandlineOk |-> <<48, 54, 54, 51, 51, 49, 50, 51, 52, 53, 54>>,
     LandlineTehran |-> <<48, 50, 49, 49, 50, 51, 52, 53, 54, 55, 56>>,
     LandlineShort |-> <<49, 50, 51>>,
     LandlineOther |-> <<48, 54, 54, 52, 52, 49, 50, 51, 52, 53, 54>>,
     MajorOk |-> <<1605, 1607, 1606, 1583, 1587, 1740, 32, 1576, 1585, 1602>>,
     MajorArt |-> <<65, 114, 116>>,
     MarriedBad |-> <<115, 105, 110, 103, 108, 101>>,
     NidOk |-> PyInt(FALSE, <<1, 2, 3, 4, 5, 6, 7, 8, 9, 1>>),
     NidBad |-> PyInt(FALSE, <<1, 2, 3, 4, 5, 6, 7, 8, 9, 0>>),
     PostalIntOk |-> PyInt(FALSE, <<1, 2, 3, 4, 5, 6, 7, 8, 9, 0>>),
     PostalIntShort |-> PyInt(FALSE, <<1, 2, 3, 4, 5>>),
     STID_A |-> PyInt(FALSE, <<4, 0, 0, 1, 1, 4, 1, 5, 0, 0, 1>>),
     STID_BadYear |-> PyInt(FALSE, <<3, 9, 9, 1, 1, 4, 1, 5, 0, 0, 1>>),
     STID_Short |-> PyInt(FALSE, <<4, 0, 0, 1, 1, 4, 1, 5, 0, 1>>),
     LID_A |-> PyInt(FALSE, <<1, 0, 0, 0, 0, 1>>),
     LID_Short |-> PyInt(FALSE, <<1, 2, 3>>)]

CourseIds == {Sample.CID_A, Sample.CID_B}

LessonFields == {"CID", "CName", "Department", "Credit"}
UpdateLessonFields == {"CName", "Department", "Credit"}

LessonBase(cid) ==
    [f \in LessonFields |->
        CASE f = "CID" -> cid
          [] f = "CName" -> Sample.FaRiazi
          [] f = "Department" -> Sample.DeptScience
          [] f = "Credit" -> <<51>>]

LessonAlts ==
    [CID |-> <<Sample.CID_Short>>,
     CName |-> <<Sample.FaFizik, Sample.LatinAli>>,
     Department |-> <<Sample.DeptPhysics>>,
     Credit |-> <<<<48>>>>]

UpdateLessonAlts ==
    [CName |-> <<Sample.FaFizik, Sample.LatinAli>>,
     Department |-> <<Sample.DeptPhysics>>,
     Credit |-> <<<<48>>>>]

StudentIds == {Sample.STID_A}

MasterIds == {Sample.LID_A}

StudentFields ==
    {"STID", "FName", "LName", "Father", "Birth", "IDS", "BornCity", "Address",
     "PostalCode", "CPhone", "HPhone", "Department", "Major", "Married", "ID",
     "SCourseIDs", "LIDs"}
UpdateStudentFields == StudentFields \ {"STID"}

StudentBase(stid) ==
    [f \in StudentFields |->
        CASE f = "STID" -> stid
          [] f = "FName" -> Sample.FaAli
          [] f = "LName" -> Sample.FaReza
          [] f = "Father" -> Sample.FaReza
          [] f = "Birth" -> Sample.BirthOk
          [] f = "IDS" -> Sample.IdsOk
          [] f = "BornCity" -> Sample.Tehran
          [] f = "Address" -> Sample.Tehran
          [] f = "PostalCode" -> Sample.PostalIntOk
          [] f = "CPhone" -> Sample.MobileOk
          [] f = "HPhone" -> Sample.LandlineOk
          [] f = "Department" -> Sample.DeptScience
          [] f = "Major" -> Sample.MajorOk
          [] f = "Married" -> MarriedNo
          [] f = "ID" -> Sample.NidOk
          [] f = "SCourseIDs" -> <<>>
          [] f = "LIDs" -> <<>>]

UpdateStudentAlts ==
    [FName |-> <<Sample.LatinAli, Sample.Long11>>,
     LName |-> <<Sample.LatinAli>>,
     Father |-> <<Sample.LatinAli>>,
     Birth |-> <<Sample.BirthBad>>,
     IDS |-> <<Sample.IdsBad>>,
     BornCity |-> <<Sample.Paris>>,
     Address |-> <<Sample.Long101>>,
     PostalCode |-> <<Sample.PostalIntShort>>,
     CPhone |-> <<Sample.MobileBad>>,
     HPhone |-> <<Sample.LandlineShort, Sample.LandlineTehran>>,
     Department |-> <<Sample.DeptPhysics>>,
     Major |-> <<Sample.MajorArt>>,
     Married |-> <<Sample.MarriedBad>>,
     ID |-> <<Sample.NidBad>>,
     SCourseIDs |-> << <<>>, <<Sample.CID_A>>, <<Sample.CID_A, Sample.CID_B>> >>,
     LIDs |-> << <<>>, <<Sample.LID_A>> >>]

StudentAlts ==
    [f \in StudentFields |->
        IF f = "STID" THEN <<Sample.STID_BadYear, Sample.STID_Short>>
        ELSE IF f = "SCourseIDs" THEN << <<Sample.CID_A>>, <<Sample.CID_A, Sample.CID_B>> >>
        ELSE IF f = "LIDs" THEN << <<Sample.LID_A>> >>
        ELSE UpdateStudentAlts[f]]

\* fields an update request sets to null
UpdateStudentNulls == {"FName", "PostalCode", "Married", "Department"}

MasterFields ==
    {"LID", "FName", "LName", "ID", "Department", "Major", "Birth", "BornCity",
     "Address", "PostalCode", "CPhone", "HPhone", "LCourseIDs"}
UpdateMasterFields == MasterFields \ {"LID"}

MasterBase(lid) ==
    [f \in MasterFields |->
        CASE f = "LID" -> lid
          [] f = "FName" -> Sample.FaAli
          [] f = "LName" -> Sample.FaReza
          [] f = "ID" -> Sample.NidOk
          [] f = "Department" -> Sample.DeptScience
          [] f = "Major" -> Sample.MajorOk
          [] f = "Birth" -> Sample.BirthOk
          [] f = "BornCity" -> Sample.Tehran
          [] f = "Address" -> Sample.Tehran
          [] f = "PostalCode" -> Sample.PostalOk
          [] f = "CPhone" -> Sample.MobileOk
          [] f = "HPhone" -> Sample.LandlineOk
          [] f = "LCourseIDs" -> <<>>]

UpdateMasterAlts ==
    [FName |-> <<Sample.LatinAli, Sample.Long11>>,
     LName |-> <<Sample.LatinAli>>,
     ID |-> <<Sample.NidBad>>,
     Department |-> <<Sample.DeptPhysics>>,
     Major |-> <<Sample.MajorArt>>,
     Birth |-> <<Sample.BirthBad>>,
     BornCity |-> <<Sample.Paris>>,
     Address |-> <<Sample.Long101>>,
     PostalCode |-> <<Sample.PostalShort>>,
     CPhone |-> <<Sample.MobileBad>>,
     HPhone |-> <<Sample.LandlineShort, Sample.LandlineTehran, Sample.LandlineOther>>,
     LCourseIDs |-> << <<>>, <<Sample.CID_A>> >>]

MasterAlts ==
    [f \in MasterFields |->
        IF f = "LID" THEN <<Sample.LID_Short>>
        ELSE IF f = "LCourseIDs" THEN << <<Sample.CID_A>> >>
        ELSE UpdateMasterAlts[f]]

UpdateMasterNulls == {"FName", "PostalCode", "ID", "LCourseIDs"}

StudentCreatePayloads ==
    {WithRun(p, create_std_rules(p)) : p \in
        {CreatePayload(StudentBase(stid), StudentAlts, D) :
        stid \in StudentIds,
        D \in Choices(OptionsOf(StudentAlts, {"SCourseIDs", "LIDs"}), MaxFields)}}

StudentUpdatePayloads ==
    {WithRun(p, update_std_rules(p)) : p \in
        {UpdatePayload(UpdateStudentFields, {"SCourseIDs", "LIDs"}, StudentBase(Sample.STID_A),
                   UpdateStudentAlts, D) :
        D \in Choices(OptionsOf(UpdateStudentAlts, UpdateStudentNulls), MaxFields)}}

MasterCreatePayloads ==
    {WithRun(p, master_rules(p)) : p \in
        {CreatePayload(MasterBase(lid), MasterAlts, D) :
        lid \in MasterIds,
        D \in Choices(OptionsOf(MasterAlts, {"LCourseIDs"}), MaxFields)}}

MasterUpdatePayloads ==
    {WithRun(p, upd_mas_rules(p)) : p \in
        {UpdatePayload(UpdateMasterFields, {}, MasterBase(Sample.LID_A), UpdateMasterAlts, D) :
        D \in Choices(OptionsOf(UpdateMasterAlts, UpdateMasterNulls), MaxFields)}}

LessonCreatePayloads ==
    {WithRun(p, course_rules(p)) : p \in
        {CreatePayload(LessonBase(cid), LessonAlts, D) :
        cid \in CourseIds, D \in Choices(OptionsOf(LessonAlts, {}), MaxFields)}}

LessonUpdatePayloads ==
    {WithRun(p, upt_cour_rules(p)) : p \in
        {UpdatePayload(UpdateLessonFields, {}, LessonBase(Sample.CID_A), UpdateLessonAlts, D) :
        D \in Choices(OptionsOf(UpdateLessonAlts, UpdateLessonFields), MaxFields)}}

(***************************************************************************)
(* The endpoints.  Each action is one request handled from the session's   *)
(* creation to the response.                                               *)
(***************************************************************************)
Request(op, ent, id, p) == [op |-> op, ent |-> ent, id |-> id, p |-> p]

\* GET /getcsr/{CID}
get_csr ==
    /\ req.op = "none"
    /\ \E CID \in CourseIds :
        LET out == get_lsn(lessons, CID)
        IN  /\ req' = Request("get", "course", CID, NoPayload)
            /\ resp' = out.resp
            /\ lessons' = out.table
            /\ UNCHANGED <<students, masters, nid_n, nid_r, fn_s, fn_r, workers>>

\* POST /creatcsr
creatcsr ==
    /\ req.op = "none"
    /\ \E ln \in LessonCreatePayloads :
        LET out == course(ln, lessons)
        IN  /\ req' = Request("create", "course", ln.val.CID, Body(ln))
            /\ resp' = out.resp
            /\ lessons' = out.table
            /\ UNCHANGED <<students, masters, nid_n, nid_r, fn_s, fn_r, workers>>

\* PATCH /uptcsr/{CID}
uptcsr ==
    /\ req.op = "none"
    /\ \E CID \in CourseIds, ln \in LessonUpdatePayloads :
        LET out == upt_cour(CID, ln, lessons)
        IN  /\ req' = Request("update", "course", CID, Body(ln))
            /\ resp' = out.resp
            /\ lessons' = out.table
            /\ UNCHANGED <<students, masters, nid_n, nid_r, fn_s, fn_r, workers>>

\* DELETE /Delcsr/{CID}
del_lsn ==
    /\ req.op = "none"
    /\ \E CID \in CourseIds :
        LET out == crud_del_lsn(lessons, CID)
        IN  /\ req' = Request("delete", "course", CID, NoPayload)
            /\ resp' = out.resp
            /\ lessons' = out.table
            /\ UNCHANGED <<students, masters, nid_n, nid_r, fn_s, fn_r, workers>>

\* GET /GetStu/{STID}
get_std ==
    /\ req.op = "none"
    /\ \E STID \in StudentIds :
        LET out == get_student(students, STID)
        IN  /\ req' = Request("get", "student", STID, NoPayload)
            /\ resp' = out.resp
            /\ students' = out.table
            /\ UNCHANGED <<lessons, masters, nid_n, nid_r, fn_s, fn_r, workers>>

\* POST /RegStu
RegStu ==
    /\ req.op = "none"
    /\ \E users \in StudentCreatePayloads :
        LET out == create_std(users, students, lessons, masters)
        IN  /\ req' = Request("create", "student", users.val.STID, Body(users))
            /\ resp' = out.resp
            /\ students' = out.table
            /\ UNCHANGED <<lessons, masters, nid_n, nid_r, fn_s, fn_r, workers>>

\* PATCH /UpdStu/{STID}
UpdStu ==
    /\ req.op = "none"
    /\ \E STID \in StudentIds, student_update \in StudentUpdatePayloads :
        LET out == update_std(STID, student_update, students)
        IN  /\ req' = Request("update", "student", STID, Body(student_update))
            /\ resp' = out.resp
            /\ students' = out.table
            /\ UNCHANGED <<lessons, masters, nid_n, nid_r, fn_s, fn_r, workers>>

\* DELETE /DelStu/{STID}
del_std ==
    /\ req.op = "none"
    /\ \E STID \in StudentIds :
        LET out == crud_del_std(students, STID)
        IN  /\ req' = Request("delete", "student", STID, NoPayload)
            /\ resp' = out.resp
            /\ students' = out.table
            /\ UNCHANGED <<lessons, masters, nid_n, nid_r, fn_s, fn_r, workers>>

\* GET /GetMrs/{LID}
GetMrs ==
    /\ req.op = "none"
    /\ \E LID \in MasterIds :
        LET out == get_msr(masters, LID)
        IN  /\ req' = Request("get", "master", LID, NoPayload)
            /\ resp' = out.resp
            /\ masters' = out.table
            /\ UNCHANGED <<students, lessons, nid_n, nid_r, fn_s, fn_r, workers>>

\* POST /CreateMaster
CreateMaster ==
    /\ req.op = "none"
    /\ \E mr \in MasterCreatePayloads :
        LET out == master(mr, masters, lessons)
        IN  /\ req' = Request("create", "master", mr.val.LID, Body(mr))
            /\ resp' = out.resp
            /\ masters' = out.table
            /\ UNCHANGED <<students, lessons, nid_n, nid_r, fn_s, fn_r, workers>>

\* PATCH /Updmaster/{LID}
Updmaster ==
    /\ req.op = "none"
    /\ \E LID \in MasterIds, mr \in MasterUpdatePayloads :
        LET out == upd_mas(LID, mr, masters, lessons)
        IN  /\ req' = Request("update", "master", LID, Body(mr))
            /\ resp' = out.resp
            /\ masters' = out.table
            /\ UNCHANGED <<students, lessons, nid_n, nid_r, fn_s, fn_r, workers>>

\* DELETE /DelLsn/{LID}
del_msr ==
    /\ req.op = "none"
    /\ \E LID \in MasterIds :
        LET out == crud_del_msr(masters, LID)
        IN  /\ req' = Request("delete", "master", LID, NoPayload)
            /\ resp' = out.resp
            /\ masters' = out.table
            /\ UNCHANGED <<students, lessons, nid_n, nid_r, fn_s, fn_r, workers>>

\* get_db: the handler has returned or raised; the response is sent and the
\* session closed
get_db ==
    /\ req.op # "none"
    /\ req' = NoRequest
    /\ resp' = NoResponse
    /\ UNCHANGED <<students, lessons, masters, nid_n, nid_r, fn_s, fn_r, workers>>

Init == StoreIdle /\ ValidatorsIdle

Next ==
    \/ get_std
    \/ RegStu
    \/ UpdStu
    \/ del_std
    \/ get_csr
    \/ creatcsr
    \/ uptcsr
    \/ del_lsn
    \/ GetMrs
    \/ CreateMaster
    \/ Updmaster
    \/ del_msr
    \/ get_db

Spec == Init /\ [][Next]_vars

(***************************************************************************)
(* Properties of the endpoints.  A state with req.op # "none" is the state *)
(* right after a handler answered: req is the request, resp the answer,    *)
(* and the tables are the store the handler left.                          *)
(***************************************************************************)
KeyOf(ent) ==
    CASE ent = "student" -> "STID"
      [] ent = "course" -> "CID"
      [] OTHER -> "LID"

\* the rows of table T of entity ent that carry identifier id
RowsAt(T, ent, id) == {r \in T : r[KeyOf(ent)] = id}

TableNow(ent) ==
    CASE ent = "student" -> students
      [] ent = "course" -> lessons
      [] OTHER -> masters

TableNext(ent) ==
    CASE ent = "student" -> students'
      [] ent = "course" -> lessons'
      [] OTHER -> masters'

\* a handler has just answered the request req'
Answers == req.op = "none" /\ req'.op # "none"

\* the field statements the handler of request r executes on its payload
StepsOf(r) ==
    CASE r.ent = "student" /\ r.op = "create" -> create_std_steps(r.p)
      [] r.ent = "student" /\ r.op = "update" -> update_std_steps(r.p)
      [] r.ent = "master" /\ r.op = "create" -> master_steps(r.p)
      [] r.ent = "master" /\ r.op = "update" -> upd_mas_steps(r.p)
      [] r.ent = "course" /\ r.op = "create" -> course_steps(r.p)
      [] OTHER -> upt_cour_steps(r.p)

\* C4: whenever a create or update is answered with the validation error,
\* every field rule the payload violates has its own entry in the errors of
\* that answer: no violated rule's entry is dropped or overwritten by the
\* entry of another rule.
C4_EveryViolationReported ==
    (req.op \in {"create", "update"} /\ resp.detail = "Validation error")
        => LET steps == StepsOf(req)
           IN  \A i \in 1..Len(steps) :
                   steps[i].hit => <<steps[i].key, steps[i].msg>> \in resp.errors

DuplicateDetails ==
    {"studentID already exists ,studentID must be unique",
     "courseID already exists ,courseID must be unique",
     "This teacher exists with the number {mr.LID}"}

\* C5: a create whose identifier already has a stored row is answered with
\* the duplicate-identifier error alone, whatever the rest of the payload is,
\* and leaves every table as it was.
C5_DuplicatePreempts ==
    [][(Answers /\ req'.op = "create"
            /\ RowsAt(TableNow(req'.ent), req'.ent, req'.id) # {})
        => /\ resp'.code = 400
           /\ resp'.detail \in DuplicateDetails
           /\ resp'.errors = {}
           /\ store' = store]_vars

\* the entries of errors that name identifier id as a missing reference
Naming(errors, id) == {e \in errors : e[2].arg = <<id>>}

\* C6: on Student create (the identifier not being a duplicate), every
\* identifier of SCourseIDs without a row in the Course table is named by an
\* entry of the validation error; and when every listed course and master
\* exists, the answer carries no reference entry.
C6_MissingCoursesNamed ==
    (req.op = "create" /\ req.ent = "student" /\ req.p.null = {}
        /\ resp.detail \notin DuplicateDetails)
        => LET v == req.p.val
               missing == {i \in 1..Len(v.SCourseIDs) : v.SCourseIDs[i] \notin CIDs(lessons)}
               absent == {i \in 1..Len(v.LIDs) : v.LIDs[i] \notin LIDsOf(masters)}
           IN  /\ \A i \in missing :
                      /\ resp.detail = "Validation error"
                      /\ Naming(resp.errors, v.SCourseIDs[i]) # {}
               /\ (missing = {} /\ absent = {})
                      => Keys(resp.errors) \cap {"Lcourse", "LID"} = {}

\* C7: after a successful update the target row keeps its identifier and
\* every field the payload did not supply, every other row of its table is
\* as before, and the other tables are unchanged.
C7_UpdateFrame ==
    [][(Answers /\ req'.op = "update" /\ resp'.code = 200)
        => LET ent == req'.ent
               old == RowsAt(TableNow(ent), ent, req'.id)
               new == RowsAt(TableNext(ent), ent, req'.id)
           IN  /\ Cardinality(old) = 1
               /\ Cardinality(new) = 1
               /\ \A o \in old, n \in new :
                      \A f \in DOMAIN o : f \notin req'.p.set => n[f] = o[f]
               /\ TableNext(ent) \ new = TableNow(ent) \ old
               /\ \A other \in {"student", "course", "master"} \ {ent} :
                      TableNext(other) = TableNow(other)]_vars

\* a successful master update that supplied a course list only: the row has
\* the new list, still has the HPhone it was created with (not supplied
\* now), and the Course table holds two rows of its own
C7_Witness ==
    /\ req.op = "update" /\ req.ent = "master" /\ resp.code = 200
    /\ req.p.set = {"LCourseIDs"} /\ req.p.null = {}
    /\ \E r \in masters :
           /\ r.LID = req.id
           /\ r.HPhone # MasterBase(req.id).HPhone
           /\ r.LCourseIDs = req.p.val.LCourseIDs
           /\ r.LCourseIDs # MasterBase(req.id).LCourseIDs
    /\ Cardinality(lessons) = 2

\* the fields an update payload of entity ent must always carry
RequiredOf(ent) == IF ent = "student" THEN {"SCourseIDs", "LIDs"} ELSE {}

\* payload p with field f left out
Omit(p, f) == [set |-> p.set \ {f}, null |-> p.null \ {f}, val |-> p.val]

\* what the update handler of ent answers to payload q for identifier id in
\* the current store
UpdateOutcome(ent, id, q) ==
    CASE ent = "student" -> update_std(id, WithRun(q, update_std_rules(q)), students)
      [] ent = "course" -> upt_cour(id, WithRun(q, upt_cour_rules(q)), lessons)
      [] OTHER -> upd_mas(id, WithRun(q, upd_mas_rules(q)), masters, lessons)

\* C8: an update of a stored row whose payload sets an optional field to null is answered
\* as the same request without that field would be, leaves the table that
\* request would leave, and does not clear the stored value of the field.
C8_NullIsOmitted ==
    [][(Answers /\ req'.op = "update"
            /\ RowsAt(TableNow(req'.ent), req'.ent, req'.id) # {})
        => \A f \in req'.p.null \ RequiredOf(req'.ent) :
               LET out == UpdateOutcome(req'.ent, req'.id, Omit(req'.p, f))
               IN  /\ resp' = out.resp
                   /\ TableNext(req'.ent) = out.table
                   /\ \A o \in RowsAt(TableNow(req'.ent), req'.ent, req'.id) :
                          \E n \in RowsAt(TableNext(req'.ent), req'.ent, req'.id) :
                              n[f] = o[f]]_vars

NotFoundDetails ==
    {"student is not found", "lesson is not found", "master is not found",
     "CID is not found", "There is no such master"}

\* C9: a read, update or delete whose identifier has no stored row is
\* answered with a not-found error, whatever the payload is, and leaves
\* every table as it was.
C9_MissingIsNotFound ==
    [][(Answers /\ req'.op \in {"get", "update", "delete"}
            /\ RowsAt(TableNow(req'.ent), req'.ent, req'.id) = {})
        => /\ resp'.code \in {400, 404}
           /\ resp'.detail \in NotFoundDetails
           /\ store' = store]_vars

\* C10: an update of an existing row whose payload supplies no field is
\* answered with an error, never with success.
C10_EmptyUpdateFails ==
    (req.op = "update" /\ req.p.set = {}
        /\ RowsAt(TableNow(req.ent), req.ent, req.id) # {})
        => resp.code # 200

\* the request req' is answered by the handler's own rules: its identifier is
\* new (create) or stored (update), so neither the duplicate-identifier nor
\* the not-found answer applies
Admitted ==
    \/ req'.op = "create" /\ RowsAt(TableNow(req'.ent), req'.ent, req'.id) = {}
    \/ req'.op = "update" /\ RowsAt(TableNow(req'.ent), req'.ent, req'.id) # {}

\* C11: whenever a create or an update whose identifier is admitted violates
\* at least one field rule, the answer is the aggregate validation error and
\* every table is as it was before the request.
C11_FailedRuleStoresNothing ==
    [][(Answers /\ Admitted
            /\ \E i \in 1..Len(StepsOf(req')) : StepsOf(req')[i].hit)
        => /\ resp'.detail = "Validation error"
           /\ resp'.errors # {}
           /\ store' = store]_vars

\* the identifiers of list ids that are not in the set existing
Dangling(ids, existing) == {ids[i] : i \in 1..Len(ids)} \ existing

\* C12: in every reachable state every course a stored student or master
\* lists is a stored course, and every master a stored student lists is a
\* stored master.
C12_ReferencesResolve ==
    /\ \A r \in students :
           /\ Dangling(r.SCourseIDs, CIDs(lessons)) = {}
           /\ Dangling(r.LIDs, LIDsOf(masters)) = {}
    /\ \A r \in masters : Dangling(r.LCourseIDs, CIDs(lessons)) = {}

\* the reference lists an update payload p of entity ent supplies (not null)
\* that name an identifier without a row
BrokenLists(ent, p) ==
    LET given(f) == f \in p.set \ p.null
    IN  CASE ent = "student" ->
               {f \in {"SCourseIDs"} : given(f) /\ Dangling(p.val[f], CIDs(lessons)) # {}}
               \cup {f \in {"LIDs"} : given(f) /\ Dangling(p.val[f], LIDsOf(masters)) # {}}
          [] ent = "master" ->
               {f \in {"LCourseIDs"} : given(f) /\ Dangling(p.val[f], CIDs(lessons)) # {}}
          [] OTHER -> {}

\* C13: an update of a stored student or master that supplies a reference
\* list holding an identifier without a row is answered with the validation
\* error and changes no table.
C13_UpdateChecksReferences ==
    [][(Answers /\ req'.op = "update" /\ Admitted
            /\ BrokenLists(req'.ent, req'.p) # {})
        => /\ resp'.detail = "Validation error"
           /\ store' = store]_vars

(***************************************************************************)
(* The Course endpoints served concurrently.  Each worker handles one      *)
(* request at a time in steps: get_db opens a session, the handler reads   *)
(* the table, crud commits, crud refreshes, get_db closes the session.     *)
(* The steps of the two workers interleave; each step is one statement on  *)
(* the database.                                                           *)
(***************************************************************************)
\* the requests differ in CName only: a second valid name, an invalid name,
\* and (update) no name or null
RaceAlts == [CName |-> LessonAlts.CName]

RaceCreatePayloads ==
    {WithRun(p, course_rules(p)) : p \in
        {CreatePayload(LessonBase(cid), RaceAlts, D) :
        cid \in CourseIds, D \in Choices(OptionsOf(RaceAlts, {}), 1)}}

RaceUpdatePayloads ==
    {WithRun(p, upt_cour_rules(p)) : p \in
        {UpdatePayload(UpdateLessonFields, {}, LessonBase(Sample.CID_A), RaceAlts, D) :
        D \in Choices(OptionsOf(RaceAlts, {"CName"}), 1)}}

\* creates carry either identifier; reads, updates and deletes address one
RaceRequests ==
    {Request("create", "course", p.val.CID, p) : p \in RaceCreatePayloads}
    \cup {Request("update", "course", Sample.CID_A, p) : p \in RaceUpdatePayloads}
    \cup {Request(op, "course", Sample.CID_A, NoPayload) : op \in {"get", "delete"}}

\* the workers whose request has been received and has not reached its
\* commit yet
Pending == {w \in Workers : workers[w].pc \in {"handler", "write"}}

\* a variant of the insert without the primary key on lesson.CID
commit_insert_unkeyed(ls, lesson) == [raise |-> "", table |-> create_lesson(ls, lesson)]

\* db.add(db_lesson); db.commit() on a table whose CID is the primary key
commit_insert(ls, lesson) ==
    IF \E r \in ls : r.CID = lesson.val.CID
    THEN [raise |-> "IntegrityError", table |-> ls]
    ELSE [raise |-> "", table |-> create_lesson(ls, lesson)]

\* a variant that closes the session only when the handler returned
FinallyOnReturn(outcome) == outcome.code = 200

\* get_db: `try: yield db finally: db.close()` runs on every outcome
Finally(outcome) == TRUE

\* worker w leaves the handler with answer r
Exit(w, r) == [workers EXCEPT ![w].pc = "exit", ![w].resp = r]

\* get_db: db = SessionLocal(); yield db, for a request the worker receives
OpenSession(w) ==
    /\ workers[w].pc \in {"idle", "done"}
    /\ \E r \in RaceRequests :
        workers' = [v \in Workers |->
            IF v = w
            THEN [pc |-> "handler", session |-> "open", req |-> r,
                  resp |-> NoResponse, commits |-> 0, overlap |-> Pending \ {w}]
            ELSE IF v \in Pending
            THEN [workers[v] EXCEPT !.overlap = @ \cup {w}]
            ELSE [workers[v] EXCEPT !.overlap = @ \ {w}]]
    /\ UNCHANGED <<students, lessons, masters, req, resp, nid_n, nid_r, fn_s, fn_r>>

\* get_csr: crud.get_lsn
HandleGet(w) ==
    /\ workers[w].pc = "handler" /\ workers[w].req.op = "get"
    /\ workers' = Exit(w, get_lsn(lessons, workers[w].req.id).resp)
    /\ UNCHANGED <<students, lessons, masters, req, resp, nid_n, nid_r, fn_s, fn_r>>

\* course, lines 67-80: the existence query and the field rules
CheckCreate(w) ==
    /\ workers[w].pc = "handler" /\ workers[w].req.op = "create"
    /\ workers[w].req.ent = "course"
    /\ LET out == course(workers[w].req.p, lessons)
       IN  workers' = IF out.resp.code = 200
                      THEN [workers EXCEPT ![w].pc = "write"]
                      ELSE Exit(w, out.resp)
    /\ UNCHANGED <<students, lessons, masters, req, resp, nid_n, nid_r, fn_s, fn_r>>

\* crud.create_lesson: db.add(db_lesson); db.commit()
CommitCreate(w) ==
    /\ workers[w].pc = "write" /\ workers[w].req.op = "create"
    /\ workers[w].req.ent = "course"
    /\ LET out == commit_insert(lessons, workers[w].req.p)
       IN  /\ lessons' = out.table
           /\ workers' = IF out.raise # ""
                          THEN Exit(w, ServerError(out.raise))
                          ELSE [workers EXCEPT ![w].pc = "refresh", ![w].commits = @ + 1]
    /\ UNCHANGED <<students, masters, req, resp, nid_n, nid_r, fn_s, fn_r>>

\* upt_cour, lines 96-108: the existence query and the field rules
CheckUpdate(w) ==
    /\ workers[w].pc = "handler" /\ workers[w].req.op = "update"
    /\ LET out == upt_cour(workers[w].req.id, workers[w].req.p, lessons)
       IN  workers' = IF out.resp.code = 200
                      THEN [workers EXCEPT ![w].pc = "write"]
                      ELSE Exit(w, out.resp)
    /\ UNCHANGED <<students, lessons, masters, req, resp, nid_n, nid_r, fn_s, fn_r>>

\* crud.update_course on a row that is gone: the second query has no None
\* test.  With values to assign, setattr(None, ...) raises AttributeError
\* when the query sees the delete, and the UPDATE of the commit matches no
\* row (StaleDataError) when the session still reads its snapshot; with
\* nothing to assign the commit is empty and db.refresh raises.
MissingRowErrors(assigns) ==
    IF assigns THEN {"AttributeError", "StaleDataError"}
    ELSE {"UnmappedInstanceError", "InvalidRequestError"}

\* crud.update_course: the row is queried again without a None test, so a
\* row deleted meanwhile makes setattr, the commit or the refresh raise
CommitUpdate(w) ==
    /\ workers[w].pc = "write" /\ workers[w].req.op = "update"
    /\ LET r == workers[w].req
       IN  IF \E row \in lessons : row.CID = r.id
           THEN /\ lessons' = update_course(lessons, r.id, r.p)
                /\ workers' = [workers EXCEPT ![w].pc = "refresh", ![w].commits = @ + 1]
           ELSE /\ lessons' = lessons
                /\ \E exc \in MissingRowErrors(r.p.set \ r.p.null # {}) :
                       workers' = [Exit(w, ServerError(exc)) EXCEPT
                                      ![w].commits = IF r.p.set \ r.p.null = {} THEN @ + 1 ELSE @]
    /\ UNCHANGED <<students, masters, req, resp, nid_n, nid_r, fn_s, fn_r>>

\* crud.create_lesson / crud.update_course: db.refresh(row); return row
Refresh(w) ==
    /\ workers[w].pc = "refresh"
    /\ workers[w].req.ent = "course"
    /\ workers' = Exit(w, IF \E row \in lessons : row.CID = workers[w].req.id
                          THEN Returned("")
                          ELSE ServerError("InvalidRequestError"))
    /\ UNCHANGED <<students, lessons, masters, req, resp, nid_n, nid_r, fn_s, fn_r>>

\* crud.del_lsn: the query and the None test
QueryDelete(w) ==
    /\ workers[w].pc = "handler" /\ workers[w].req.op = "delete"
    /\ LET out == get_lsn(lessons, workers[w].req.id)
       IN  workers' = IF out.resp.code = 200
                      THEN [workers EXCEPT ![w].pc = "write"]
                      ELSE Exit(w, out.resp)
    /\ UNCHANGED <<students, lessons, masters, req, resp, nid_n, nid_r, fn_s, fn_r>>

\* crud.del_lsn: db.delete(lesson); db.commit()
CommitDelete(w) ==
    /\ workers[w].pc = "write" /\ workers[w].req.op = "delete"
    /\ lessons' = {row \in lessons : row.CID # workers[w].req.id}
    /\ workers' = [Exit(w, Returned("delete record is succesful")) EXCEPT ![w].commits = @ + 1]
    /\ UNCHANGED <<students, masters, req, resp, nid_n, nid_r, fn_s, fn_r>>

\* get_db: finally: db.close()
CloseSession(w) ==
    /\ workers[w].pc = "exit"
    /\ Finally(workers[w].resp)
    /\ workers' = [workers EXCEPT ![w].pc = "done", ![w].session = "closed"]
    /\ UNCHANGED <<students, lessons, masters, req, resp, nid_n, nid_r, fn_s, fn_r>>

\* the steps that carry a received request to its end
Handle(w) ==
    \/ HandleGet(w)
    \/ CheckCreate(w)
    \/ CommitCreate(w)
    \/ CheckUpdate(w)
    \/ CommitUpdate(w)
    \/ Refresh(w)
    \/ QueryDelete(w)
    \/ CommitDelete(w)
    \/ CloseSession(w)

NextRace ==
    \/ \E w \in Workers : OpenSession(w)
    \/ \E w \in Workers : HandleGet(w)
    \/ \E w \in Workers : CheckCreate(w)
    \/ \E w \in Workers : CommitCreate(w)
    \/ \E w \in Workers : CheckUpdate(w)
    \/ \E w \in Workers : CommitUpdate(w)
    \/ \E w \in Workers : Refresh(w)
    \/ \E w \in Workers : QueryDelete(w)
    \/ \E w \in Workers : CommitDelete(w)
    \/ \E w \in Workers : CloseSession(w)

SpecRace == Init /\ [][NextRace]_vars

\* the server runs every handler it started to its end
FairRace == SpecRace /\ \A w \in Workers : WF_vars(Handle(w))

\* workers a and b handle creates of one identifier, both received before
\* either reached its commit
RacingCreates(a, b) ==
    /\ a # b
    /\ b \in workers[a].overlap
    /\ workers[a].req.op = "create" /\ workers[b].req.op = "create"
    /\ workers[a].req.id = workers[b].req.id

\* C14: however the steps of two overlapping creates of one identifier
\* interleave, the Course table never holds two rows with one CID and the two
\* requests are never both answered with success.
C14_OneRowOneSuccess ==
    /\ \A r1, r2 \in lessons : r1.CID = r2.CID => r1 = r2
    /\ \A a, b \in Workers :
           RacingCreates(a, b) => ~(workers[a].resp.code = 200 /\ workers[b].resp.code = 200)

\* both creates passed the existence check before either inserted; one was
\* stored and answered with success, the other failed at its commit
C14_Witness ==
    /\ RacingCreates("a", "b")
    /\ workers["a"].resp.code = 200
    /\ workers["b"].resp = ServerError("IntegrityError")
    /\ workers["a"].req.p.val.CName # workers["b"].req.p.val.CName
    /\ Cardinality(RowsAt(lessons, "course", workers["a"].req.id)) = 1

\* C15: every session a worker opened is closed later, whatever the handler
\* answered; a worker whose request has ended holds a closed session; and no
\* request commits more than once.
C15_SessionReleased ==
    /\ \A w \in Workers :
           (workers[w].session = "open") ~> (workers[w].session = "closed")
    /\ [](\A w \in Workers : workers[w].pc = "done" => workers[w].session = "closed")
    /\ [](\A w \in Workers : workers[w].commits <= 1)

\* one request ended after an uncaught exception and the other after a
\* validation error raised by the handler; both sessions are closed and the
\* first committed nothing
C15_Witness ==
    /\ workers["a"].pc = "done" /\ workers["a"].session = "closed"
    /\ workers["a"].resp.code = 500 /\ workers["a"].commits = 0
    /\ workers["b"].pc = "done" /\ workers["b"].session = "closed"
    /\ workers["b"].resp.detail = "Validation error"

(***************************************************************************)
(* The field rules on a wider range of values.  One request departs from a *)
(* base payload of valid values in one field, drawn from FieldValues; the  *)
(* handlers are the ones above.  The three tables together hold at most    *)
(* MaxRows rows.                                                           *)
(***************************************************************************)
MaxRows == 2

FieldValues ==
    [CID |-> << Sample.CID_A, PyInt(TRUE, <<1, 2, 3, 4>>), PyInt(FALSE, <<1, 2, 3, 4>>),
                PyInt(FALSE, <<1, 2, 3, 4, 5, 6>>), PyInt(TRUE, <<1, 2, 3, 4, 5>>) >>,
     LID |-> << Sample.LID_A, PyInt(TRUE, <<1, 2, 3, 4, 5>>), PyInt(FALSE, <<1, 2, 3, 4, 5>>),
                PyInt(FALSE, <<1, 2, 3, 4, 5, 6, 7>>) >>,
     STID |-> << Sample.STID_A,
                 PyInt(FALSE, <<4, 0, 2, 1, 1, 4, 1, 5, 0, 9, 9>>),
                 PyInt(FALSE, <<4, 0, 3, 1, 1, 4, 1, 5, 0, 0, 1>>),
                 Sample.STID_BadYear,
                 PyInt(FALSE, <<4, 0, 0, 1, 1, 4, 1, 5, 1, 0, 1>>),
                 PyInt(FALSE, <<4, 0, 1, 1, 1, 4, 1, 5, 0, 0, 0>>),
                 Sample.STID_Short,
                 PyInt(FALSE, <<4, 0, 0, 1, 1, 4, 1, 5, 0, 0, 1, 1>>),
                 PyInt(TRUE, <<4, 0, 0, 1, 1, 4, 1, 5, 0, 1>>) >>,
     Credit |-> << <<49>>, <<52>>, <<48>>, <<53>>, <<53, 53>>, <<49, 120>>, <<>> >>,
     Department |-> << <<>>, <<1593, 1604, 1608, 1605>>, Sample.DeptPhysics >>,
     Address |-> << Sample.LatinAli >>,
     CPhone |-> << <<48, 57, 97, 98, 99, 100, 101, 102, 103, 104, 105>>, Sample.MobileBad >>,
     FName |-> << Sample.LatinAli >>]

FieldIds(k) == {FieldValues[k][i] : i \in 1..Len(FieldValues[k])}

\* the values of base with one of the fields fs replaced, and base itself
Vary(base, fs) ==
    {base} \cup UNION {{[base EXCEPT ![f] = FieldValues[f][k]] : k \in 1..Len(FieldValues[f])}
                       : f \in fs}

\* a create payload supplies every field, those of nulls as null
CreateOf(val, nulls) == [set |-> DOMAIN val, null |-> nulls, val |-> val]

\* an update payload supplies field f, and the required fields as null
UpdatesOf(fields, base, fs, required) ==
    UNION {{[set |-> {f} \cup required, null |-> required,
             val |-> [g \in fields |-> IF g = f THEN FieldValues[f][k] ELSE base[g]]]
            : k \in 1..Len(FieldValues[f])} : f \in fs}

FieldLessonCreates ==
    {WithRun(p, course_rules(p)) : p \in
        {CreateOf(val, {}) : val \in
            UNION {Vary(LessonBase(cid), {"Credit", "Department"}) : cid \in FieldIds("CID")}}}

FieldLessonUpdates ==
    {WithRun(p, upt_cour_rules(p)) : p \in
        UpdatesOf(UpdateLessonFields, LessonBase(Sample.CID_A), {"Credit", "Department"}, {})}

FieldMasterCreates ==
    {WithRun(p, master_rules(p)) : p \in
        {CreateOf(val, {}) : val \in
            UNION {Vary(MasterBase(lid), {"Department", "CPhone"}) : lid \in FieldIds("LID")}}}

FieldMasterUpdates ==
    {WithRun(p, upd_mas_rules(p)) : p \in
        UpdatesOf(UpdateMasterFields, MasterBase(Sample.LID_A),
                  {"Department", "CPhone", "FName"}, {})}

FieldStudentCreates ==
    {WithRun(p, create_std_rules(p)) : p \in
        {CreateOf(val, nulls) :
            val \in UNION {Vary(StudentBase(stid), {"Department", "Address"})
                           : stid \in FieldIds("STID")},
            nulls \in {{}, {"SCourseIDs"}}}}

FieldStudentUpdates ==
    {WithRun(p, update_std_rules(p)) : p \in
        UpdatesOf(UpdateStudentFields, StudentBase(Sample.STID_A),
                  {"Department", "Address", "FName"}, {"SCourseIDs", "LIDs"})}

\* the store has room for the row of a create of identifier id
Room(table, ent, id) ==
    \/ Cardinality(students) + Cardinality(lessons) + Cardinality(masters) < MaxRows
    \/ RowsAt(table, ent, id) # {}

\* POST /creatcsr
creatcsr_field ==
    /\ req.op = "none"
    /\ \E ln \in FieldLessonCreates :
        LET out == course(ln, lessons)
        IN  /\ Room(lessons, "course", ln.val.CID)
            /\ req' = Request("create", "course", ln.val.CID, Body(ln))
            /\ resp' = out.resp
            /\ lessons' = out.table
            /\ UNCHANGED <<students, masters, nid_n, nid_r, fn_s, fn_r, workers>>

\* PATCH /uptcsr/{CID}
uptcsr_field ==
    /\ req.op = "none"
    /\ \E CID \in FieldIds("CID"), ln \in FieldLessonUpdates :
        LET out == upt_cour(CID, ln, lessons)
        IN  /\ req' = Request("update", "course", CID, Body(ln))
            /\ resp' = out.resp
            /\ lessons' = out.table
            /\ UNCHANGED <<students, masters, nid_n, nid_r, fn_s, fn_r, workers>>

\* POST /CreateMaster
CreateMaster_field ==
    /\ req.op = "none"
    /\ \E mr \in FieldMasterCreates :
        LET out == master(mr, masters, lessons)
        IN  /\ Room(masters, "master", mr.val.LID)
            /\ req' = Request("create", "master", mr.val.LID, Body(mr))
            /\ resp' = out.resp
            /\ masters' = out.table
            /\ UNCHANGED <<students, lessons, nid_n, nid_r, fn_s, fn_r, workers>>

\* PATCH /Updmaster/{LID}
Updmaster_field ==
    /\ req.op = "none"
    /\ \E LID \in FieldIds("LID"), mr \in FieldMasterUpdates :
        LET out == upd_mas(LID, mr, masters, lessons)
        IN  /\ req' = Request("update", "master", LID, Body(mr))
            /\ resp' = out.resp
            /\ masters' = out.table
            /\ UNCHANGED <<students, lessons, nid_n, nid_r, fn_s, fn_r, workers>>

\* POST /RegStu
RegStu_field ==
    /\ req.op = "none"
    /\ \E users \in FieldStudentCreates :
        LET out == create_std(users, students, lessons, masters)
        IN  /\ Room(students, "student", users.val.STID)
            /\ req' = Request("create", "student", users.val.STID, Body(users))
            /\ resp' = out.resp
            /\ students' = out.table
            /\ UNCHANGED <<lessons, masters, nid_n, nid_r, fn_s, fn_r, workers>>

\* PATCH /UpdStu/{STID}
UpdStu_field ==
    /\ req.op = "none"
    /\ \E STID \in FieldIds("STID"), student_update \in FieldStudentUpdates :
        LET out == update_std(STID, student_update, students)
        IN  /\ req' = Request("update", "student", STID, Body(student_update))
            /\ resp' = out.resp
            /\ students' = out.table
            /\ UNCHANGED <<lessons, masters, nid_n, nid_r, fn_s, fn_r, workers>>

NextFields ==
    \/ creatcsr_field
    \/ uptcsr_field
    \/ CreateMaster_field
    \/ Updmaster_field
    \/ RegStu_field
    \/ UpdStu_field
    \/ get_db

SpecFields == Init /\ [][NextFields]_vars

\* the identifiers a Course and an Instructor may carry
CourseIdRange == 10000..99999
MasterIdRange == 100000..999999

\* C16: a Course is stored only under a CID from 10000 to 99999 and an
\* Instructor only under an LID from 100000 to 999999; a create request
\* with any other integer identifier, negative ones included, is answered
\* with the validation error and stores nothing.
C16_IdentifierDigits ==
    [][Answers /\ req'.op = "create" /\ req'.ent \in {"course", "master"} =>
        /\ \A r \in lessons' : IntVal(r.CID) \in CourseIdRange
        /\ \A r \in masters' : IntVal(r.LID) \in MasterIdRange
        /\ IntVal(req'.id) \notin (IF req'.ent = "course" THEN CourseIdRange
                                   ELSE MasterIdRange)
           => resp'.detail = "Validation error" /\ store' = store]_vars

\* an STID of eleven digits: year prefix, fixed segment, index 01..99
StudentIdParts(n) ==
    /\ ~n.neg
    /\ Len(n.digs) = 11
    /\ SubSeq(n.digs, 1, 3) \in {<<4, 0, 0>>, <<4, 0, 1>>, <<4, 0, 2>>}
    /\ SubSeq(n.digs, 4, 9) = <<1, 1, 4, 1, 5, 0>>
    /\ 10 * n.digs[10] + n.digs[11] \in 1..99

\* C17: a Student is stored only under an STID of exactly 11 digits that
\* begins with 400, 401 or 402, carries 114150 in positions 4 to 9 and ends
\* in an index from 01 to 99; a create request whose STID fails any of these
\* parts is answered with the validation error and stores nothing.
C17_StudentIdParts ==
    [][Answers /\ req'.op = "create" /\ req'.ent = "student" =>
        /\ \A r \in students' : StudentIdParts(r.STID)
        /\ ~StudentIdParts(req'.id)
           => resp'.detail = "Validation error" /\ store' = store]_vars

\* the Credit strings "1" to "4"
CreditRange == {<<48 + n>> : n \in 1..4}

\* the request supplies field f with a value
Supplies(r, f) == f \in r.p.set \ r.p.null

\* C18: a Course is created, or has its Credit updated, only with a Credit
\* from "1" to "4"; a create or an update of a stored Course that supplies
\* any other Credit string is answered with the validation error and stores
\* nothing.
C18_CreditRange ==
    [][Answers /\ Admitted /\ req'.ent = "course" /\ Supplies(req', "Credit") =>
        /\ \A r \in RowsAt(lessons', "course", req'.id) : r.Credit \in CreditRange
        /\ req'.p.val.Credit \notin CreditRange
           => resp'.detail = "Validation error" /\ store' = store]_vars

\* the trusted department names, as a set
TrustedDepartments == {lst_college[i] : i \in 1..Len(lst_college)}

\* C19: a Course, Student or Instructor is created or updated with a
\* Department only if the value is one of the seven trusted names; a create
\* or an update of a stored row that supplies any other Department, the
\* empty string and a fragment of a trusted name included, is answered with
\* the validation error and stores nothing.
C19_DepartmentTrusted ==
    [][Answers /\ Admitted /\ Supplies(req', "Department") =>
        /\ Cardinality(TrustedDepartments) = 7
        /\ \A r \in RowsAt(TableNext(req'.ent), req'.ent, req'.id) :
               r.Department \in TrustedDepartments
        /\ req'.p.val.Department \notin TrustedDepartments
           => resp'.detail = "Validation error" /\ store' = store]_vars

\* the stored row r, read as a create payload
AsPayload(r) == [set |-> DOMAIN r, null |-> {}, val |-> r]

\* none of the field statements steps stores an entry in errors
NoneHits(steps) == \A i \in 1..Len(steps) : ~steps[i].hit /\ steps[i].raise = ""

\* C20: after any sequence of creates and updates, every stored Student and
\* every stored Instructor satisfies every field rule of its create handler:
\* no update has stored a value that create rejects for the same field.
C20_UpdateKeepsCreateRules ==
    /\ \A r \in students : NoneHits(create_std_steps(AsPayload(r)))
    /\ \A r \in masters : NoneHits(master_steps(AsPayload(r)))

(***************************************************************************)
(* Interleaved requests on one row.                                        *)
(***************************************************************************)
\* worker w handles an update that has passed the existence check of the
\* handler and has not reached crud's write yet
PastCheck(w) == workers[w].req.op = "update" /\ workers[w].pc = "write"

\* C21: when an update and a delete of one Course interleave, an update
\* that has passed the handler's existence check writes against a row that
\* is still stored: its write step never finds the row removed and never
\* ends in an uncaught exception.
C21_UpdateWritesStoredRow ==
    [][\A w \in Workers :
           PastCheck(w) /\ workers'[w].pc # "write" =>
               /\ RowsAt(lessons, "course", workers[w].req.id) # {}
               /\ workers'[w].resp.code # 500]_vars

(***************************************************************************)
(* Creates that reference a Course, interleaved with the Course's delete.  *)
(* The workers receive a Course create or delete, or a Student or          *)
(* Instructor create whose list names the Course or is empty.              *)
(***************************************************************************)
RefCourse == WithRun(CreateOf(LessonBase(Sample.CID_A), {}),
                     course_rules(CreateOf(LessonBase(Sample.CID_A), {})))

RefMasters ==
    {WithRun(p, master_rules(p)) : p \in
        {CreateOf([MasterBase(Sample.LID_A) EXCEPT !.LCourseIDs = ids], {}) :
         ids \in {<<>>, <<Sample.CID_A>>}}}

RefStudents ==
    {WithRun(p, create_std_rules(p)) : p \in
        {CreateOf([StudentBase(Sample.STID_A) EXCEPT !.SCourseIDs = ids], {}) :
         ids \in {<<>>, <<Sample.CID_A>>}}}

RefRequests ==
    {Request("create", "course", Sample.CID_A, RefCourse),
     Request("delete", "course", Sample.CID_A, NoPayload)}
    \cup {Request("create", "master", p.val.LID, p) : p \in RefMasters}
    \cup {Request("create", "student", p.val.STID, p) : p \in RefStudents}

\* get_db: db = SessionLocal(); yield db, for a request the worker receives
OpenSessionRef(w) ==
    /\ workers[w].pc \in {"idle", "done"}
    /\ \E r \in RefRequests :
        workers' = [v \in Workers |->
            IF v = w
            THEN [pc |-> "handler", session |-> "open", req |-> r,
                  resp |-> NoResponse, commits |-> 0, overlap |-> Pending \ {w}]
            ELSE IF v \in Pending
            THEN [workers[v] EXCEPT !.overlap = @ \cup {w}]
            ELSE [workers[v] EXCEPT !.overlap = @ \ {w}]]
    /\ UNCHANGED <<students, lessons, masters, req, resp, nid_n, nid_r, fn_s, fn_r>>

\* master, lines 79-117: the existence query, the field rules and the
\* queries of the referenced Courses
CheckMaster(w) ==
    /\ workers[w].pc = "handler" /\ workers[w].req.op = "create"
    /\ workers[w].req.ent = "master"
    /\ LET out == master(workers[w].req.p, masters, lessons)
       IN  workers' = IF out.resp.code = 200
                      THEN [workers EXCEPT ![w].pc = "write"]
                      ELSE Exit(w, out.resp)
    /\ UNCHANGED <<students, lessons, masters, req, resp, nid_n, nid_r, fn_s, fn_r>>

\* crud.create_master: db.add(db_master); db.commit(), LID the primary key
CommitMaster(w) ==
    /\ workers[w].pc = "write" /\ workers[w].req.op = "create"
    /\ workers[w].req.ent = "master"
    /\ IF \E r \in masters : r.LID = workers[w].req.id
       THEN /\ masters' = masters
            /\ workers' = Exit(w, ServerError("IntegrityError"))
       ELSE /\ masters' = create_master(masters, workers[w].req.p)
            /\ workers' = [workers EXCEPT ![w].pc = "refresh", ![w].commits = @ + 1]
    /\ UNCHANGED <<students, lessons, req, resp, nid_n, nid_r, fn_s, fn_r>>

\* create_std, lines 76-130: the queries of the referenced rows, the
\* existence query and the field rules
CheckStudent(w) ==
    /\ workers[w].pc = "handler" /\ workers[w].req.op = "create"
    /\ workers[w].req.ent = "student"
    /\ LET out == create_std(workers[w].req.p, students, lessons, masters)
       IN  workers' = IF out.resp.code = 200
                      THEN [workers EXCEPT ![w].pc = "write"]
                      ELSE Exit(w, out.resp)
    /\ UNCHANGED <<students, lessons, masters, req, resp, nid_n, nid_r, fn_s, fn_r>>

\* crud.create_student: db.add(db_student); db.commit(), STID the primary key
CommitStudent(w) ==
    /\ workers[w].pc = "write" /\ workers[w].req.op = "create"
    /\ workers[w].req.ent = "student"
    /\ IF \E r \in students : r.STID = workers[w].req.id
       THEN /\ students' = students
            /\ workers' = Exit(w, ServerError("IntegrityError"))
       ELSE /\ students' = create_student(students, workers[w].req.p)
            /\ workers' = [workers EXCEPT ![w].pc = "refresh", ![w].commits = @ + 1]
    /\ UNCHANGED <<lessons, masters, req, resp, nid_n, nid_r, fn_s, fn_r>>

\* crud.create_student / crud.create_master: db.refresh(row); return row
RefreshNew(w) ==
    /\ workers[w].pc = "refresh"
    /\ workers[w].req.ent \in {"student", "master"}
    /\ workers' = Exit(w, IF RowsAt(TableNow(workers[w].req.ent), workers[w].req.ent,
                                    workers[w].req.id) # {}
                          THEN Returned("")
                          ELSE ServerError("InvalidRequestError"))
    /\ UNCHANGED <<students, lessons, masters, req, resp, nid_n, nid_r, fn_s, fn_r>>

NextRefs ==
    \/ \E w \in Workers : OpenSessionRef(w)
    \/ \E w \in Workers : CheckCreate(w)
    \/ \E w \in Workers : CommitCreate(w)
    \/ \E w \in Workers : Refresh(w)
    \/ \E w \in Workers : QueryDelete(w)
    \/ \E w \in Workers : CommitDelete(w)
    \/ \E w \in Workers : CheckMaster(w)
    \/ \E w \in Workers : CommitMaster(w)
    \/ \E w \in Workers : CheckStudent(w)
    \/ \E w \in Workers : CommitStudent(w)
    \/ \E w \in Workers : RefreshNew(w)
    \/ \E w \in Workers : CloseSession(w)

SpecRefs == Init /\ [][NextRefs]_vars

\* the Course identifiers the payload of request r references
CoursesOf(r) ==
    LET ids == IF r.ent = "student" THEN r.p.val.SCourseIDs ELSE r.p.val.LCourseIDs
    IN  {ids[i] : i \in 1..Len(ids)}

\* worker w inserts the row of its Student or Instructor create in this step
Inserts(w) ==
    /\ workers[w].pc = "write" /\ workers[w].req.op = "create"
    /\ workers[w].req.ent \in {"student", "master"}
    /\ TableNext(workers[w].req.ent) # TableNow(workers[w].req.ent)

\* C22: when a Student or Instructor create interleaves with the delete of
\* a Course its payload references, the row is inserted only while every
\* Course it references is stored: no insert carries a reference to a Course
\* that is already deleted at the moment of the insert.
C22_InsertSeesReferences ==
    [][\A w \in Workers : Inserts(w) => CoursesOf(workers[w].req) \subseteq CIDs(lessons)]_vars

====
